---- MODULE Spec2Model ----
(***************************************************************************)
(* Model of the attendance tracker: the Attendance screen                  *)
(* (src/unnamed/part_000, the revision with the camera sheet; its earlier  *)
(* revision is src/src/pages/Attendance.tsx:30-329) and the History screen *)
(* (src/src/pages/Attendance.tsx:351-467), over the browser's localStorage,*)
(* geolocation service, camera and clock.                                  *)
(*                                                                         *)
(* Each browser tab holds one mounted screen with its own React state;     *)
(* the two localStorage keys and the clock are shared by the tabs.         *)
(***************************************************************************)
EXTENDS Integers, Sequences, FiniteSets, TLC

(***************************************************************************)
(* Bounds of the model.                                                    *)
(***************************************************************************)
\* the ledger is explored up to this many records
MaxRecords == 2
\* the clock runs from 0 to MaxNow
MaxNow == 2
\* clock ticks per calendar day (86 400 000 ms in the browser)
TicksPerDay == 2

\* null, for the values that are strings otherwise
NULL == "null"
\* null and a non-null value v, for the other nullable values
None == <<>>
Some(v) == <<v>>
Val(x) == x[1]
Tabs == {"t1", "t2"}
Users == {"U1", "U2"}

(***************************************************************************)
(* Coordinates are integers in units of 0.0001 degree.                     *)
(***************************************************************************)
\* part_000:10-13, OFFICE_LOCATION = (40.7128, -74.0060)
OFFICE_LOCATION == [latitude |-> 407128, longitude |-> -740060]
\* part_000:16
MAX_DISTANCE == 100
\* part_000:113, Earth's radius in meters
R == 6371000

(***************************************************************************)
(* calculateDistance, part_000:112-126, in fixed point.  Angles of the     *)
(* two differences are in units of 10^-8 rad (Scale), the latitudes        *)
(* themselves and the cosines in units of 10^-4.  The coordinates of the   *)
(* model lie within 0.03 degree of each other, which keeps every           *)
(* intermediate value below 2^31.                                          *)
(***************************************************************************)
Scale == 10000 * 10000

\* division rounding toward zero, as the sign-symmetric float operations do
TDiv(a, b) == IF a >= 0 THEN a \div b ELSE -((-a) \div b)

\* (x * Math.PI) / 180 for x in 0.0001 degree, result in 10^-8 rad
ToRadians(x) == TDiv(x * 174533, 1000)

\* Half with the division left out: sin(x) in place of sin(x / 2)
HalfForgotten(x) == x

\* half of an angle, kept in 10^-8 rad
Half(x) == TDiv(x, 2)

\* Math.sin of a small angle x (10^-8 rad): x - x^3/6
Sin(x) == x - TDiv(TDiv(TDiv(x * x, Scale) * x, Scale), 6)

\* Math.cos of a latitude given in 0.0001 degree, result in 10^-4:
\* 1 - x^2/2 + x^4/24 - x^6/720 with x in 10^-4 rad
Cos(lat) ==
  LET x  == TDiv(TDiv(lat, 100) * 17453, 10000)
      x2 == TDiv(x * x, 10000)
      x4 == TDiv(x2 * x2, 10000)
      x6 == TDiv(x4 * x2, 10000)
  IN  10000 - TDiv(x2, 2) + TDiv(x4, 24) - TDiv(x6, 720)

\* (c * s) / 10^4 for a cosine product c (10^-4) and a square s, without overflow
MulFrac(c, s) == (s \div 10000) * c + ((s % 10000) * c) \div 10000

RECURSIVE SqrtBits(_, _, _)
\* Math.sqrt on integers below 2^31: the largest r with r*r <= n, bit by bit
SqrtBits(n, r, bit) ==
  IF bit = 0 THEN r
  ELSE IF r + bit <= 46340 /\ (r + bit) * (r + bit) <= n
       THEN SqrtBits(n, r + bit, bit \div 2)
       ELSE SqrtBits(n, r, bit \div 2)
Sqrt(n) == SqrtBits(n, 0, 32768)

\* Math.sqrt(1 - a) for a in 10^-16, result in 10^-8: 1 - a/2
SqrtOneMinus(a) == Scale - TDiv(a, 2 * Scale)

\* Math.atan2(y, x) for 0 <= y << x (both 10^-8): q - q^3/3 with q = y/x
Atan2(y, x) ==
  LET q == y + TDiv(y * (Scale - x), x)
  IN  q - TDiv(TDiv(TDiv(q * q, Scale) * q, Scale), 3)

\* Math.round(R * c) for c in 10^-8 rad
RoundMeters(c) == ((R \div 1000) * c + 50000) \div 100000

calculateDistance(lat1, lon1, lat2, lon2) ==
  LET dphi    == ToRadians(lat2 - lat1)
      dlambda == ToRadians(lon2 - lon1)
      s1      == Sin(Half(dphi))
      s2      == Sin(Half(dlambda))
      cc      == TDiv(Cos(lat1) * Cos(lat2), 10000)
      \* a, in units of 10^-16
      a       == s1 * s1 + MulFrac(cc, s2 * s2)
      c       == 2 * Atan2(Sqrt(a), SqrtOneMinus(a))
  IN  RoundMeters(c)

(***************************************************************************)
(* The positions the geolocation service reports in the model, with the    *)
(* distance the code computes for each: a point on the threshold (100 m)   *)
(* and a point just beyond it (101 m).                                     *)
(***************************************************************************)
Coordinate(dlat, dlon) ==
  [latitude  |-> OFFICE_LOCATION.latitude + dlat,
   longitude |-> OFFICE_LOCATION.longitude + dlon]
Readings == {Coordinate(9, 0), Coordinate(0, 12)}

(***************************************************************************)
(* State.                                                                  *)
(***************************************************************************)
VARIABLES
  now,                \* Date.now(), the browser's clock
  geolocation,        \* whether navigator.geolocation exists (part_000:81)
  storedUser,         \* localStorage "currentUser": NULL or the user's id
  storedRecords,      \* localStorage "attendanceRecords": None or the ledger
  screen,             \* per tab: the mounted route
  currentUser,        \* per tab: useState, part_000:31
  currentLocation,    \* part_000:32
  distance,           \* part_000:33
  isWithinOffice,     \* part_000:34
  isLoading,          \* part_000:35
  hasCheckedIn,       \* part_000:36
  attendanceRecords,  \* part_000:37 (Attendance) and Attendance.tsx:353 (History)
  isCameraActive,     \* part_000:38
  cameraError,        \* part_000:39
  isSheetOpen,        \* part_000:40
  srcObject,          \* videoRef.current.srcObject holds a stream
  liveStream,         \* an acquired MediaStream has tracks that were not stopped
  geoPending,         \* a getCurrentPosition request of this screen is outstanding
  lastOp              \* history: the last handler that ran, and what it surfaced

shared == <<now, geolocation, storedUser, storedRecords>>
perTab == <<screen, currentUser, currentLocation, distance, isWithinOffice,
            isLoading, hasCheckedIn, attendanceRecords, isCameraActive,
            cameraError, isSheetOpen, srcObject, liveStream, geoPending>>
vars == <<shared, perTab, lastOp>>

\* the state of tab t as one record
Cur(t) ==
  [screen |-> screen[t], currentUser |-> currentUser[t],
   currentLocation |-> currentLocation[t], distance |-> distance[t],
   isWithinOffice |-> isWithinOffice[t], isLoading |-> isLoading[t],
   hasCheckedIn |-> hasCheckedIn[t], attendanceRecords |-> attendanceRecords[t],
   isCameraActive |-> isCameraActive[t], cameraError |-> cameraError[t],
   isSheetOpen |-> isSheetOpen[t], srcObject |-> srcObject[t],
   liveStream |-> liveStream[t], geoPending |-> geoPending[t]]

\* the useState initial values, part_000:31-40, on the landing route
Fresh ==
  [screen |-> "landing", currentUser |-> NULL, currentLocation |-> None,
   distance |-> None, isWithinOffice |-> None, isLoading |-> FALSE,
   hasCheckedIn |-> FALSE, attendanceRecords |-> <<>>,
   isCameraActive |-> FALSE, cameraError |-> NULL, isSheetOpen |-> FALSE,
   srcObject |-> FALSE, liveStream |-> FALSE, geoPending |-> FALSE]

\* the <video ref={videoRef}> element is rendered, part_000:341-353: inside
\* the open sheet, and only while isCameraActive
VideoRef(s) == s.screen = "attendance" /\ s.isSheetOpen /\ s.isCameraActive

\* the <canvas ref={canvasRef}> element is rendered, part_000:341-364
CanvasRef(s) == s.screen = "attendance" /\ s.isSheetOpen

\* the comparator puts a before b: b.timestamp - a.timestamp < 0 when
\* descending, a.timestamp - b.timestamp < 0 otherwise
Before(a, b, descending) ==
  IF descending THEN a.timestamp > b.timestamp ELSE a.timestamp < b.timestamp

RECURSIVE InsertByTimestamp(_, _, _)
\* r put into the sorted sequence, behind every record that the comparator
\* does not place after r (a stable insertion)
InsertByTimestamp(sorted, r, descending) ==
  IF sorted = <<>> THEN <<r>>
  ELSE IF Before(r, Head(sorted), descending) THEN <<r>> \o sorted
       ELSE <<Head(sorted)>> \o InsertByTimestamp(Tail(sorted), r, descending)

RECURSIVE SortWith(_, _)
\* Array.prototype.sort with a comparator on timestamps, which is stable
SortWith(records, descending) ==
  IF records = <<>> THEN <<>>
  ELSE InsertByTimestamp(
         SortWith(SubSeq(records, 1, Len(records) - 1), descending),
         records[Len(records)], descending)

\* mutant of sortByTimestamp: the comparator is a.timestamp - b.timestamp
sortByTimestampAscending(records) == SortWith(records, FALSE)

\* Attendance.tsx:420-421, .sort((a, b) => b.timestamp - a.timestamp)
sortByTimestamp(records) == SortWith(records, TRUE)

\* a re-render: a <video> element that is no longer rendered is discarded,
\* and its srcObject with it; the History screen sorts its records in
\* place while it renders them (Attendance.tsx:420-422)
Render(s) ==
  LET s1 == IF VideoRef(s) THEN s ELSE [s EXCEPT !.srcObject = FALSE] IN
  IF s1.screen = "history"
  THEN [s1 EXCEPT !.attendanceRecords = sortByTimestamp(@)]
  ELSE s1

\* tab t takes state s (after its re-render); the other tabs keep theirs
SetTab(t, s0) ==
  LET s == Render(s0) IN
  /\ screen' = [screen EXCEPT ![t] = s.screen]
  /\ currentUser' = [currentUser EXCEPT ![t] = s.currentUser]
  /\ currentLocation' = [currentLocation EXCEPT ![t] = s.currentLocation]
  /\ distance' = [distance EXCEPT ![t] = s.distance]
  /\ isWithinOffice' = [isWithinOffice EXCEPT ![t] = s.isWithinOffice]
  /\ isLoading' = [isLoading EXCEPT ![t] = s.isLoading]
  /\ hasCheckedIn' = [hasCheckedIn EXCEPT ![t] = s.hasCheckedIn]
  /\ attendanceRecords' = [attendanceRecords EXCEPT ![t] = s.attendanceRecords]
  /\ isCameraActive' = [isCameraActive EXCEPT ![t] = s.isCameraActive]
  /\ cameraError' = [cameraError EXCEPT ![t] = s.cameraError]
  /\ isSheetOpen' = [isSheetOpen EXCEPT ![t] = s.isSheetOpen]
  /\ srcObject' = [srcObject EXCEPT ![t] = s.srcObject]
  /\ liveStream' = [liveStream EXCEPT ![t] = s.liveStream]
  /\ geoPending' = [geoPending EXCEPT ![t] = s.geoPending]

\* the record of the last handler: its name, its tab, the toasts it showed,
\* the attendance type it was called with and whether it wrote the ledger
Op(name, t, toasts, type, appended) ==
  [name |-> name, tab |-> t, toasts |-> toasts, type |-> type,
   appended |-> appended]

(***************************************************************************)
(* Pure parts of the handlers.                                             *)
(***************************************************************************)
\* new Date(timestamp).toDateString(): the calendar day of a timestamp
toDateString(timestamp) == timestamp \div TicksPerDay

\* JSON.stringify of one record, part_000:242: a key whose value is
\* undefined is left out; null is kept
StringifyRecord(r) ==
  [r EXCEPT !.photoUrl = IF @ = "undefined" THEN "absent" ELSE @]

\* JSON.stringify(updatedRecords), part_000:242
JSONstringify(records) == [i \in DOMAIN records |-> StringifyRecord(records[i])]

\* JSON.parse(storedRecords), part_000:57; a stored item is represented by
\* the value its text parses to
JSONparse(item) == item

\* the ledger that localStorage holds (no item: no records)
Ledger == IF storedRecords = None THEN <<>> ELSE JSONparse(Val(storedRecords))

\* mutant of userRecords: the filter forgets the user's id
userRecordsOfAnyUser(records, userId, today) ==
  SelectSeq(records, LAMBDA r :
    toDateString(r.timestamp) = today /\ r.type = "check-in")

\* part_000:60-67: the records of the user, of today, of type check-in
userRecords(records, userId, today) ==
  SelectSeq(records, LAMBDA r :
    r.id = userId /\ toDateString(r.timestamp) = today /\ r.type = "check-in")

\* part_000:67, userRecords.length > 0
HasCheckedInAtMount(records, userId, today) ==
  Len(userRecords(records, userId, today)) > 0

\* part_000:171-184
stopCamera(s) ==
  IF ~VideoRef(s) \/ ~s.srcObject THEN s
  ELSE [s EXCEPT !.liveStream = FALSE, !.srcObject = FALSE,
                 !.isCameraActive = FALSE]

\* part_000:79-110 up to the request: the state after getCurrentLocation()
getCurrentLocation(s) ==
  IF geolocation
  THEN [s EXCEPT !.isLoading = TRUE, !.geoPending = TRUE]
  ELSE [s EXCEPT !.isLoading = FALSE]

\* part_000:106-108: the toast of getCurrentLocation() itself
LocationToasts == IF geolocation THEN {} ELSE {"error"}

\* part_000:227-235
NewRecord(s, type, photoUrl) ==
  [id |-> s.currentUser, timestamp |-> now, type |-> type,
   status |-> IF s.isWithinOffice = Some(TRUE) THEN "present" ELSE "absent",
   location |-> Val(s.currentLocation), photoUrl |-> photoUrl]

\* mutant of UpdatedRecords: the earlier records are not spread into the array
UpdatedRecordsWithoutPrior(records, newRecord) == <<newRecord>>

\* part_000:238, [...attendanceRecords, newRecord]
UpdatedRecords(records, newRecord) == Append(records, newRecord)

(***************************************************************************)
(* Initial state: nothing stored, every tab on the landing route.          *)
(***************************************************************************)
Init ==
  /\ now = 0
  /\ geolocation \in BOOLEAN
  /\ storedUser = NULL
  /\ storedRecords = None
  /\ screen = [t \in Tabs |-> Fresh.screen]
  /\ currentUser = [t \in Tabs |-> Fresh.currentUser]
  /\ currentLocation = [t \in Tabs |-> Fresh.currentLocation]
  /\ distance = [t \in Tabs |-> Fresh.distance]
  /\ isWithinOffice = [t \in Tabs |-> Fresh.isWithinOffice]
  /\ isLoading = [t \in Tabs |-> Fresh.isLoading]
  /\ hasCheckedIn = [t \in Tabs |-> Fresh.hasCheckedIn]
  /\ attendanceRecords = [t \in Tabs |-> Fresh.attendanceRecords]
  /\ isCameraActive = [t \in Tabs |-> Fresh.isCameraActive]
  /\ cameraError = [t \in Tabs |-> Fresh.cameraError]
  /\ isSheetOpen = [t \in Tabs |-> Fresh.isSheetOpen]
  /\ srcObject = [t \in Tabs |-> Fresh.srcObject]
  /\ liveStream = [t \in Tabs |-> Fresh.liveStream]
  /\ geoPending = [t \in Tabs |-> Fresh.geoPending]
  /\ lastOp = Op("init", "t1", {}, NULL, FALSE)

(***************************************************************************)
(* Leaving a screen.  The Attendance screen's effect cleanup runs          *)
(* stopCamera (part_000:73-76); the state of the screen is discarded, and  *)
(* the callbacks of its outstanding requests no longer reach a mounted     *)
(* screen.  A stream that stopCamera did not stop stays live.              *)
(***************************************************************************)
Leave(s) == [Fresh EXCEPT !.liveStream = stopCamera(s).liveStream]

(***************************************************************************)
(* The Attendance screen's mount effect, part_000:45-77, on a freshly      *)
(* mounted screen s.                                                       *)
(***************************************************************************)
AttendanceMount(s) ==
  IF storedUser = NULL THEN s   \* navigate("/")
  ELSE
    LET s1 == [s EXCEPT !.screen = "attendance", !.currentUser = storedUser]
        s2 == IF storedRecords # None
              THEN LET records == JSONparse(Val(storedRecords)) IN
                   [s1 EXCEPT
                      !.attendanceRecords = records,
                      !.hasCheckedIn =
                         HasCheckedInAtMount(records, storedUser, toDateString(now))]
              ELSE s1
    IN  getCurrentLocation(s2)

\* the /attendance route is entered: by a link, by its URL or by a reload
MountAttendance(t) ==
  /\ SetTab(t, AttendanceMount(Leave(Cur(t))))
  /\ lastOp' = Op("mountAttendance", t,
                  IF storedUser = NULL THEN {} ELSE LocationToasts, NULL, FALSE)
  /\ UNCHANGED shared

(***************************************************************************)
(* getCurrentLocation by the Refresh Location button, part_000:321-323,    *)
(* which is rendered when not loading and a location is known.             *)
(***************************************************************************)
RefreshLocation(t) ==
  /\ screen[t] = "attendance"
  /\ ~isLoading[t]
  /\ currentLocation[t] # None
  /\ SetTab(t, getCurrentLocation(Cur(t)))
  /\ lastOp' = Op("getCurrentLocation", t, LocationToasts, NULL, FALSE)
  /\ UNCHANGED shared

\* mutant of LocationSuccess: the threshold itself counts as outside
LocationSuccessStrict(s, position) ==
  LET dist == calculateDistance(position.latitude, position.longitude,
                                OFFICE_LOCATION.latitude, OFFICE_LOCATION.longitude)
  IN  [s EXCEPT !.currentLocation = Some(position),
                !.distance = Some(dist),
                !.isWithinOffice = Some(dist < MAX_DISTANCE),
                !.isLoading = FALSE,
                !.geoPending = FALSE]

\* the success callback, part_000:83-98
LocationSuccess(s, position) ==
  LET dist == calculateDistance(position.latitude, position.longitude,
                                OFFICE_LOCATION.latitude, OFFICE_LOCATION.longitude)
  IN  [s EXCEPT !.currentLocation = Some(position),
                !.distance = Some(dist),
                !.isWithinOffice = Some(dist <= MAX_DISTANCE),
                !.isLoading = FALSE,
                !.geoPending = FALSE]

GeoSuccess(t, position) ==
  /\ geoPending[t]
  /\ SetTab(t, LocationSuccess(Cur(t), position))
  /\ lastOp' = Op("locationSuccess", t, {}, NULL, FALSE)
  /\ UNCHANGED shared

\* mutant of LocationError: the error callback forgets setIsLoading(false)
LocationErrorKeepsLoading(s) == [s EXCEPT !.geoPending = FALSE]

\* mutant of LocationError: the error callback also forgets the last reading
LocationErrorClearsReading(s) ==
  [s EXCEPT !.isLoading = FALSE, !.geoPending = FALSE,
            !.currentLocation = None, !.distance = None,
            !.isWithinOffice = None]

\* the error callback, part_000:99-103
LocationError(s) == [s EXCEPT !.isLoading = FALSE, !.geoPending = FALSE]

GeoError(t) ==
  /\ geoPending[t]
  /\ SetTab(t, LocationError(Cur(t)))
  /\ lastOp' = Op("locationError", t, {"error"}, NULL, FALSE)
  /\ UNCHANGED shared

(***************************************************************************)
(* The camera sheet, part_000:332-341.                                     *)
(***************************************************************************)
OpenSheet(t) ==
  /\ screen[t] = "attendance"
  /\ ~isSheetOpen[t]
  /\ SetTab(t, [Cur(t) EXCEPT !.isSheetOpen = TRUE])
  /\ lastOp' = Op("openSheet", t, {}, NULL, FALSE)
  /\ UNCHANGED shared

\* onOpenChange={setIsSheetOpen} with false: overlay, Escape or close button
DismissSheet(t) ==
  /\ screen[t] = "attendance"
  /\ isSheetOpen[t]
  /\ SetTab(t, [Cur(t) EXCEPT !.isSheetOpen = FALSE])
  /\ lastOp' = Op("dismissSheet", t, {}, NULL, FALSE)
  /\ UNCHANGED shared

(***************************************************************************)
(* startCamera, part_000:128-169.  granted: getUserMedia resolves with a   *)
(* stream; otherwise it rejects.  The handler is one step: it returns      *)
(* before the await whenever videoRef.current is null.  (play() of the     *)
(* attached stream may reject later and set cameraError, part_000:151-159.)*)
(***************************************************************************)
startCamera(s, granted) ==
  LET s1 == [s EXCEPT !.cameraError = NULL] IN
  IF ~VideoRef(s) THEN s1          \* console.error only, then return
  ELSE IF granted
       THEN [s1 EXCEPT !.srcObject = TRUE, !.liveStream = TRUE,
                       !.isCameraActive = TRUE]
       ELSE [s1 EXCEPT !.cameraError = "Camera access denied"]

\* the toasts of startCamera, part_000:161 and 167
startCameraToasts(s, granted) ==
  IF ~VideoRef(s) THEN {} ELSE IF granted THEN {"success"} ELSE {"error"}

\* the button of the sheet, part_000:367-381: Start Camera while the camera
\* is inactive, Stop Camera while it is active
CameraButton(t, granted) ==
  /\ screen[t] = "attendance"
  /\ isSheetOpen[t]
  /\ IF ~isCameraActive[t]
     THEN /\ SetTab(t, startCamera(Cur(t), granted))
          /\ lastOp' = Op("startCamera", t, startCameraToasts(Cur(t), granted),
                          IF granted THEN "granted" ELSE "denied", FALSE)
     ELSE /\ SetTab(t, stopCamera(Cur(t)))
          /\ lastOp' = Op("stopCamera", t, {}, NULL, FALSE)
  /\ UNCHANGED shared

(***************************************************************************)
(* handleAttendance, part_000:210-260.                                     *)
(***************************************************************************)
\* capturePhoto, part_000:186-208; drawn: the canvas gave a context and
\* drawing the frame did not throw
capturePhoto(s, drawn) ==
  IF ~VideoRef(s) \/ ~CanvasRef(s) THEN "null"
  ELSE IF drawn THEN "data:image/jpeg" ELSE "null"

\* part_000:216-225
PhotoUrl(s, drawn) ==
  IF s.isCameraActive THEN capturePhoto(s, drawn) ELSE "undefined"

\* mutant of Unavailable: attendance also requires an active camera
UnavailableWithoutCamera(s) ==
  s.currentUser = NULL \/ s.currentLocation = None \/ ~s.isCameraActive

\* part_000:211, the early return
Unavailable(s) == s.currentUser = NULL \/ s.currentLocation = None

\* mutant of handleAttendance: a check-out leaves hasCheckedIn as it was
handleAttendanceKeepsFlag(s, type, drawn) ==
  IF s.currentUser = NULL \/ s.currentLocation = None THEN s
  ELSE
    LET newRecord == NewRecord(s, type, PhotoUrl(s, drawn))
        updatedRecords == UpdatedRecords(s.attendanceRecords, newRecord)
        stopped == stopCamera(s)
    IN  [stopped EXCEPT !.attendanceRecords = updatedRecords,
                        !.isSheetOpen = FALSE,
                        !.hasCheckedIn = (type = "check-in" \/ s.hasCheckedIn)]

\* the state of the screen after handleAttendance(type)
handleAttendance(s, type, drawn) ==
  IF Unavailable(s) THEN s
  ELSE
    LET newRecord == NewRecord(s, type, PhotoUrl(s, drawn))
        updatedRecords == UpdatedRecords(s.attendanceRecords, newRecord)
        stopped == stopCamera(s)
    IN  [stopped EXCEPT !.attendanceRecords = updatedRecords,
                        !.isSheetOpen = FALSE,
                        !.hasCheckedIn = (type = "check-in")]

\* localStorage "attendanceRecords" after handleAttendance(type), part_000:242
handleAttendanceStored(s, type, drawn) ==
  IF Unavailable(s) THEN storedRecords
  ELSE Some(JSONstringify(
         UpdatedRecords(s.attendanceRecords, NewRecord(s, type, PhotoUrl(s, drawn)))))

\* mutant of handleAttendanceToasts: the early return is silent
handleAttendanceToastsSilent(s, type, drawn) ==
  IF s.currentUser = NULL \/ s.currentLocation = None THEN {}
  ELSE (IF PhotoUrl(s, drawn) \in {"undefined", "null"} THEN {"warning"} ELSE {})
       \cup (IF type = "check-out" \/ s.isWithinOffice = Some(TRUE)
             THEN {"success"} ELSE {"warning"})

\* the toasts of handleAttendance(type)
handleAttendanceToasts(s, type, drawn) ==
  IF Unavailable(s) THEN {"error"}
  ELSE (IF PhotoUrl(s, drawn) \in {"undefined", "null"} THEN {"warning"} ELSE {})
       \cup (IF type = "check-out" \/ s.isWithinOffice = Some(TRUE)
             THEN {"success"} ELSE {"warning"})

\* the three attendance buttons and when each is rendered and enabled
\* (the page's buttons are taken to stay reachable while the sheet is open):
\* Check In (part_000:414-421), Check Out (423-431), and the button of the
\* sheet (383-389), which is rendered while the camera is active
ButtonEnabled(s, button) ==
  CASE button = "check-in"  -> ~(s.hasCheckedIn \/ s.isLoading)
    [] button = "check-out" -> ~(~s.hasCheckedIn \/ s.isLoading)
    [] button = "sheet"     -> s.isSheetOpen /\ s.isCameraActive /\ ~s.isLoading

\* the type each button passes to handleAttendance
ButtonType(s, button) ==
  IF button = "sheet"
  THEN (IF s.hasCheckedIn THEN "check-out" ELSE "check-in")
  ELSE button

\* the clock has moved on since the last record was written: two clicks
\* are never served within the same millisecond
ClockMovedOn == \A i \in DOMAIN Ledger : Ledger[i].timestamp < now

HandleAttendance(t, button, drawn) ==
  LET s == Cur(t)
      type == ButtonType(s, button)
  IN  /\ screen[t] = "attendance"
      /\ ButtonEnabled(s, button)
      /\ Len(attendanceRecords[t]) < MaxRecords
      /\ Unavailable(s) \/ ClockMovedOn
      /\ SetTab(t, handleAttendance(s, type, drawn))
      /\ storedRecords' = handleAttendanceStored(s, type, drawn)
      /\ lastOp' = Op("handleAttendance", t, handleAttendanceToasts(s, type, drawn),
                      type, ~Unavailable(s))
      /\ UNCHANGED <<now, geolocation, storedUser>>

(***************************************************************************)
(* handleLogout, part_000:262-266, and viewHistory, part_000:268-271.      *)
(***************************************************************************)
\* mutant of HandleLogout: localStorage.clear() in place of removeItem
HandleLogoutClearsStorage(t) ==
  /\ screen[t] = "attendance"
  /\ SetTab(t, Leave(stopCamera(Cur(t))))
  /\ storedUser' = NULL
  /\ storedRecords' = None
  /\ lastOp' = Op("handleLogout", t, {}, NULL, FALSE)
  /\ UNCHANGED <<now, geolocation>>

HandleLogout(t) ==
  /\ screen[t] = "attendance"
  /\ SetTab(t, Leave(stopCamera(Cur(t))))
  /\ storedUser' = NULL
  /\ lastOp' = Op("handleLogout", t, {}, NULL, FALSE)
  /\ UNCHANGED <<now, geolocation, storedRecords>>

\* the History screen's mount effect, Attendance.tsx:356-374
HistoryMount(s) ==
  IF storedUser = NULL THEN s   \* navigate("/")
  ELSE
    LET s1 == [s EXCEPT !.screen = "history", !.currentUser = storedUser] IN
    IF storedRecords # None
    THEN [s1 EXCEPT !.attendanceRecords =
            SelectSeq(JSONparse(Val(storedRecords)), LAMBDA r : r.id = storedUser)]
    ELSE s1

ViewHistory(t) ==
  /\ screen[t] = "attendance"
  /\ SetTab(t, HistoryMount(Leave(stopCamera(Cur(t)))))
  /\ lastOp' = Op("viewHistory", t, {}, NULL, FALSE)
  /\ UNCHANGED shared

\* the /history route is entered by its URL or by a reload
MountHistory(t) ==
  /\ SetTab(t, HistoryMount(Leave(Cur(t))))
  /\ lastOp' = Op("mountHistory", t, {}, NULL, FALSE)
  /\ UNCHANGED shared

(***************************************************************************)
(* The landing route stores the user that logs in.                         *)
(***************************************************************************)
Login(t, u) ==
  /\ screen[t] = "landing"
  /\ storedUser' = u
  /\ lastOp' = Op("login", t, {}, NULL, FALSE)
  /\ UNCHANGED <<now, geolocation, storedRecords, perTab>>

\* time passes
Tick ==
  /\ now < MaxNow
  /\ now' = now + 1
  /\ lastOp' = Op("tick", lastOp.tab, {}, NULL, FALSE)
  /\ UNCHANGED <<geolocation, storedUser, storedRecords, perTab>>

(***************************************************************************)
(* What one tab can do, and the specification of a single tab.             *)
(***************************************************************************)
TabNext(t) ==
  \/ MountAttendance(t)
  \/ RefreshLocation(t)
  \/ \E position \in Readings : GeoSuccess(t, position)
  \/ GeoError(t)
  \/ OpenSheet(t)
  \/ DismissSheet(t)
  \/ \E granted \in BOOLEAN : CameraButton(t, granted)
  \/ \E button \in {"check-in", "check-out", "sheet"}, drawn \in BOOLEAN :
       HandleAttendance(t, button, drawn)
  \/ HandleLogout(t)
  \/ ViewHistory(t)
  \/ MountHistory(t)
  \/ \E u \in Users : Login(t, u)

Next == Tick \/ TabNext("t1")

Spec == Init /\ [][Next]_vars

(***************************************************************************)
(* Properties.                                                             *)
(***************************************************************************)
Last(seq) == seq[Len(seq)]

\* the tab whose handler ran last
T == lastOp.tab

\* the last step was a handleAttendance call that wrote a record
Appended == lastOp.name = "handleAttendance" /\ lastOp.appended

\* the records of one user on one calendar day, in ledger order
RecordsOn(records, userId, day) ==
  SelectSeq(records, LAMBDA r : r.id = userId /\ toDateString(r.timestamp) = day)

\* the specification's hasOpenCheckIn(userId, date): some check-in of the
\* user on that date has no later check-out of the user on that date
HasOpenCheckIn(records, userId, day) ==
  LET mine == RecordsOn(records, userId, day) IN
  \E i \in DOMAIN mine :
    /\ mine[i].type = "check-in"
    /\ \A j \in DOMAIN mine : j > i => mine[j].type # "check-out"

\* C1: every successful handleAttendance call leaves the persisted ledger as
\* it was with exactly one record added at the end, and every other step
\* leaves the persisted ledger unchanged.
C1_LedgerAppendOnly ==
  [][IF lastOp'.name = "handleAttendance" /\ lastOp'.appended
     THEN /\ Len(Ledger') = Len(Ledger) + 1
          /\ SubSeq(Ledger', 1, Len(Ledger)) = Ledger
     ELSE storedRecords' = storedRecords]_vars

\* C1: a record was appended to a ledger that already held one
C1_Witness == Appended /\ Len(Ledger) = 2

\* C2: right after the Attendance screen is mounted, hasCheckedIn is true
\* exactly if the stored ledger has a check-in of the current user of today
\* with no later check-out of that user of today.
C2_MountFlagIsOpenCheckIn ==
  (lastOp.name = "mountAttendance" /\ screen[T] = "attendance")
    => hasCheckedIn[T] = HasOpenCheckIn(Ledger, currentUser[T], toDateString(now))

\* C3: right after a successful handleAttendance, hasCheckedIn is true
\* exactly if the record just appended, which is the current user's, is a
\* check-in, the type the handler was called with.
C3_FlagFollowsType ==
  Appended =>
    /\ Last(Ledger).id = currentUser[T]
    /\ Last(Ledger).type = lastOp.type
    /\ hasCheckedIn[T] = (Last(Ledger).type = "check-in")

\* C3: a check-out was appended after a check-in and the flag is false
C3_Witness ==
  /\ Appended /\ lastOp.type = "check-out" /\ ~hasCheckedIn[T]
  /\ Len(Ledger) = 2 /\ Ledger[1].type = "check-in"

\* C4: the records of one user on one calendar day alternate in type,
\* starting with a check-in.
C4_TypesAlternate ==
  \A u \in Users, day \in 0..(MaxNow \div TicksPerDay) :
    LET mine == RecordsOn(Ledger, u, day) IN
    \A i \in DOMAIN mine :
      mine[i].type = IF i % 2 = 1 THEN "check-in" ELSE "check-out"

\* the distance of a record's own location from the office
RecordDistance(r) ==
  calculateDistance(r.location.latitude, r.location.longitude,
                    OFFICE_LOCATION.latitude, OFFICE_LOCATION.longitude)

\* the status of every record of the ledger agrees with its own location
StatusMatchesLocation ==
  \A i \in DOMAIN Ledger :
    /\ Ledger[i].status \in {"present", "absent"}
    /\ Ledger[i].status = "present" <=> RecordDistance(Ledger[i]) <= MAX_DISTANCE

\* C5: every record of the ledger is present exactly if its own location is
\* at most MAX_DISTANCE meters from the office, and absent otherwise; and no
\* step changes the status or the location of a record the ledger holds.
C5_StatusMatchesLocation ==
  /\ []StatusMatchesLocation
  /\ [][\A i \in DOMAIN Ledger :
          /\ i \in DOMAIN Ledger'
          /\ Ledger'[i].status = Ledger[i].status
          /\ Ledger'[i].location = Ledger[i].location]_vars

\* C5: a present and an absent record, taken at two readings, with a
\* different reading on the screen by now
C5_Witness ==
  /\ Len(Ledger) = 2
  /\ Ledger[1].status = "present" /\ Ledger[2].status = "absent"
  /\ \E t \in Tabs : /\ screen[t] = "attendance"
                     /\ currentLocation[t] = Some(Ledger[1].location)

\* C6, as claimed: a handleAttendance call while no location is available
\* appends a record.
C6_AppendsWithoutLocation ==
  (lastOp.name = "handleAttendance" /\ currentLocation[T] = None)
    => lastOp.appended

\* C6, amended: a handleAttendance call while no location is available
\* leaves the ledger, the screen's records and hasCheckedIn as they were and
\* shows an error toast.
C6_NoLocationNoRecord ==
  [][(lastOp'.name = "handleAttendance" /\ currentLocation[lastOp'.tab] = None)
       => /\ storedRecords' = storedRecords
          /\ attendanceRecords' = attendanceRecords
          /\ hasCheckedIn' = hasCheckedIn
          /\ "error" \in lastOp'.toasts]_vars

\* C6: an enabled attendance button was pressed after the location request
\* failed, and nothing was appended
C6_Witness ==
  /\ lastOp.name = "handleAttendance" /\ ~lastOp.appended
  /\ currentLocation[T] = None /\ ~isLoading[T] /\ currentUser[T] # NULL
  /\ "error" \in lastOp.toasts

\* C8: a handleAttendance call with the user and a location available
\* appends exactly one record, whatever the camera's state; the record has a
\* photo only if the camera was active, and none if it was inactive.
C8_CameraNeverBlocks ==
  [][(/\ lastOp'.name = "handleAttendance"
      /\ currentUser[lastOp'.tab] # NULL
      /\ currentLocation[lastOp'.tab] # None)
       => /\ Len(Ledger') = Len(Ledger) + 1
          /\ Last(Ledger').photoUrl = "data:image/jpeg"
               => isCameraActive[lastOp'.tab]
          /\ ~isCameraActive[lastOp'.tab]
               => Last(Ledger').photoUrl = "absent"]_vars

\* C8: a record without a photo was appended while the camera was inactive,
\* with the warning that no photo is taken
C8_Witness ==
  /\ Appended /\ Last(Ledger).photoUrl = "absent"
  /\ ~isCameraActive[T] /\ "warning" \in lastOp.toasts

\* no screen ever holds a camera stream: the <video> element is rendered
\* only while isCameraActive, so startCamera always finds videoRef.current
\* null and returns before it asks for the camera
CameraNeverActive ==
  \A t \in Tabs :
    ~isCameraActive[t] /\ ~liveStream[t] /\ ~srcObject[t] /\ cameraError[t] = NULL

\* C9: startCamera ends with the camera active or with a visible error
\* (cameraError or an error toast), and with the camera active when the
\* device grants access.
C9_CameraActiveOrError ==
  lastOp.name = "startCamera" =>
    /\ isCameraActive[T] \/ cameraError[T] # NULL \/ "error" \in lastOp.toasts
    /\ lastOp.type = "granted" => isCameraActive[T]

\* ledgers that agree with records on the records of userId: the user's
\* records alone, the other users' records moved to the front or to the
\* back, and one more check-in of each other user today
Agreeing(records, userId, today) ==
  LET own    == SelectSeq(records, LAMBDA r : r.id = userId)
      others == SelectSeq(records, LAMBDA r : r.id # userId)
      extra(u) == [id |-> u, timestamp |-> today * TicksPerDay,
                   type |-> "check-in", status |-> "absent",
                   location |-> OFFICE_LOCATION, photoUrl |-> "absent"]
  IN  {own, others \o own, own \o others}
        \cup {Append(records, extra(u)) : u \in Users \ {userId}}
        \cup {<<extra(u)>> \o records : u \in Users \ {userId}}

\* C10: the flag the mount derives for the current user is the one it
\* derives from every ledger that agrees on that user's records, and a
\* record just appended carries the id of the tab's current user.
C10_FlagPerUser ==
  /\ (lastOp.name = "mountAttendance" /\ screen[T] = "attendance")
       => \A other \in Agreeing(Ledger, currentUser[T], toDateString(now)) :
            hasCheckedIn[T] =
              HasCheckedInAtMount(other, currentUser[T], toDateString(now))
  /\ Appended => Last(Ledger).id = currentUser[T]

\* C10: two users checked in on the same day, two records, one per id, and
\* the user mounted now is flagged by its own
C10_Witness ==
  /\ lastOp.name = "mountAttendance" /\ screen[T] = "attendance"
  /\ Len(Ledger) = 2
  /\ Ledger[1].id # Ledger[2].id
  /\ Ledger[1].type = "check-in" /\ Ledger[2].type = "check-in"
  /\ toDateString(Ledger[1].timestamp) = toDateString(Ledger[2].timestamp)
  /\ toDateString(Ledger[1].timestamp) = toDateString(now)
  /\ hasCheckedIn[T]

\* how often record r occurs in a sequence of records
Count(records, r) == Cardinality({i \in DOMAIN records : records[i] = r})

\* the stored records whose id is userId, in ledger order
RecordsOf(userId) == SelectSeq(Ledger, LAMBDA r : r.id = userId)

\* C11: while the History screen is shown, the records it displays are
\* exactly the stored records of the current user, each as often as the
\* ledger holds it, in non-increasing order of timestamp; a check-in
\* followed by a check-out of the same day is shown check-out first.
C11_HistoryShowsOwnRecords ==
  \A t \in Tabs : screen[t] = "history" =>
    LET shown == attendanceRecords[t]
        own   == RecordsOf(currentUser[t])
    IN  /\ Len(shown) = Len(own)
        /\ \A i \in DOMAIN own : Count(shown, own[i]) = Count(own, own[i])
        /\ \A i \in DOMAIN shown : shown[i].id = currentUser[t]
        /\ \A i, j \in DOMAIN shown :
              i < j => shown[i].timestamp >= shown[j].timestamp
        /\ (/\ Len(own) = 2
            /\ own[1].type = "check-in" /\ own[2].type = "check-out"
            /\ toDateString(own[1].timestamp) = toDateString(own[2].timestamp))
             => shown = <<own[2], own[1]>>

\* C11: the History screen shows the check-out above the check-in of the
\* same user and day
C11_Witness ==
  \E t \in Tabs :
    /\ screen[t] = "history" /\ Len(attendanceRecords[t]) = 2
    /\ attendanceRecords[t][1].type = "check-out"
    /\ attendanceRecords[t][2].type = "check-in"
    /\ toDateString(attendanceRecords[t][1].timestamp)
         = toDateString(attendanceRecords[t][2].timestamp)
    /\ attendanceRecords[t] # RecordsOf(currentUser[t])

\* C12: on every screen distance and isWithinOffice are both null or both
\* set, and when set isWithinOffice is true exactly if distance is at most
\* MAX_DISTANCE.
C12_WithinOfficeIffDistance ==
  \A t \in Tabs :
    /\ distance[t] = None <=> isWithinOffice[t] = None
    /\ distance[t] # None =>
         Val(isWithinOffice[t]) = (Val(distance[t]) <= MAX_DISTANCE)

\* C12: a reading exactly on the threshold counts as within the office
C12_Witness ==
  \E t \in Tabs :
    distance[t] = Some(MAX_DISTANCE) /\ isWithinOffice[t] = Some(TRUE)

(***************************************************************************)
(* calculateDistance over a set of positions: two tabs take readings from  *)
(* Coordinates, so that every pair of positions is held by some state.     *)
(***************************************************************************)
\* the point 0.01 degrees north of the office, (40.7228, -74.0060)
FarNorth == Coordinate(100, 0)

Coordinates ==
  {OFFICE_LOCATION, FarNorth, Coordinate(0, 100), Coordinate(-100, 50),
   Coordinate(100, 100)}

InitDistance == Init /\ geolocation

NextDistance ==
  \/ Tick
  \/ \E t \in Tabs :
       \/ Login(t, "U1")
       \/ MountAttendance(t)
       \/ \E position \in Coordinates : GeoSuccess(t, position)
  \/ \E button \in {"check-in", "check-out"} : HandleAttendance("t1", button, FALSE)

SpecDistance == InitDistance /\ [][NextDistance]_vars

Distance(a, b) ==
  calculateDistance(a.latitude, a.longitude, b.latitude, b.longitude)

Held == {Val(currentLocation[t]) : t \in {u \in Tabs : currentLocation[u] # None}}

\* "about": within one metre in a thousand
About(d, metres) == (d - metres) * 1000 \in (0 - metres)..metres

\* C13: calculateDistance is symmetric in its two points and 0 on identical
\* points; a user at the office coordinate gets distance 0 and status
\* present; a user at (40.7228, -74.0060) gets a distance of about 1113 m,
\* above MAX_DISTANCE, and status absent.
C13_DistanceSymmetricAndScenarios ==
  /\ \A a \in Held, b \in Held :
       /\ Distance(a, b) = Distance(b, a)
       /\ Distance(a, a) = 0
  /\ \A t \in Tabs :
       /\ currentLocation[t] = Some(OFFICE_LOCATION) =>
            distance[t] = Some(0) /\ isWithinOffice[t] = Some(TRUE)
       /\ currentLocation[t] = Some(FarNorth) =>
            /\ About(Val(distance[t]), 1113)
            /\ Val(distance[t]) > MAX_DISTANCE
            /\ isWithinOffice[t] = Some(FALSE)
  /\ \A i \in DOMAIN Ledger :
       /\ Ledger[i].location = OFFICE_LOCATION => Ledger[i].status = "present"
       /\ Ledger[i].location = FarNorth => Ledger[i].status = "absent"

\* C13: one tab reads the office coordinate, the other the far point, and a
\* record has been written at each of the two
C13_Witness ==
  /\ Held = {OFFICE_LOCATION, FarNorth}
  /\ \E i \in DOMAIN Ledger : Ledger[i].location = OFFICE_LOCATION
  /\ \E i \in DOMAIN Ledger : Ledger[i].location = FarNorth

(***************************************************************************)
(* Two tabs of the same browser over one localStorage: each tab has its    *)
(* own component state and reads the storage only when it mounts,          *)
(* part_000:54-58.                                                         *)
(***************************************************************************)
NextTabs ==
  \/ Tick
  \/ \E t \in Tabs :
       \/ Login(t, "U1")
       \/ MountAttendance(t)
       \/ \E position \in Readings : GeoSuccess(t, position)
       \/ \E button \in {"check-in", "check-out"} : HandleAttendance(t, button, FALSE)

SpecTabs == Init /\ [][NextTabs]_vars

\* C14: with two tabs sharing the storage, every record once written to the
\* ledger is still in it after every later step of either tab: no append by
\* one tab overwrites or drops a record persisted by the other.
C14_LedgerAppendOnlyAcrossTabs ==
  [][\A i \in DOMAIN Ledger : \E j \in DOMAIN Ledger' : Ledger'[j] = Ledger[i]]_vars

(***************************************************************************)
(* The single tab with a geolocation service that answers: a request that  *)
(* stays outstanding is eventually served by one of the two callbacks of   *)
(* getCurrentPosition, part_000:82-104.                                    *)
(***************************************************************************)
GeoAnswer(t) ==
  \/ GeoError(t)
  \/ \E position \in Readings : GeoSuccess(t, position)

SpecFair == Spec /\ WF_vars(GeoAnswer("t1"))

\* C15: isLoading is true exactly while a geolocation request is
\* outstanding; success, failure and missing geolocation support all leave
\* it false; no record is appended by a step taken while isLoading is true;
\* and when the service answers, a loading tab eventually stops loading.
C15_LoadingWhileRequestOutstanding ==
  /\ [](\A t \in Tabs : isLoading[t] <=> geoPending[t])
  /\ [][/\ lastOp'.name \in {"locationSuccess", "locationError"} =>
            ~isLoading'[lastOp'.tab]
        /\ (lastOp'.name \in {"mountAttendance", "getCurrentLocation"} /\ ~geolocation) =>
            ~isLoading'[lastOp'.tab]
        /\ Ledger' # Ledger => ~isLoading[lastOp'.tab]]_vars
  /\ \A t \in Tabs : isLoading[t] ~> ~isLoading[t]

\* C15: a refresh is outstanding after a record was written
C15_Witness ==
  /\ lastOp.name = "getCurrentLocation"
  /\ isLoading[T] /\ geoPending[T]
  /\ Len(Ledger) > 0

\* the component state of tab t other than the loading flag and the
\* outstanding request
Reading(t) ==
  <<screen[t], currentUser[t], currentLocation[t], distance[t],
    isWithinOffice[t], hasCheckedIn[t], attendanceRecords[t],
    isCameraActive[t], cameraError[t], isSheetOpen[t], srcObject[t],
    liveStream[t]>>

\* C16: the error callback of a location request changes nothing but the
\* loading flag: the previous reading, the flags, the records and the
\* storage stay as they were and no new request is started; a mount without
\* geolocation support leaves the reading null with no request outstanding;
\* and an attendance action records the location and status the tab holds,
\* which after a failed refresh is the previous reading.
C16_FailedRequestKeepsReading ==
  [][\A t \in {u \in Tabs : u = lastOp'.tab} :
     /\ lastOp'.name = "locationError" =>
          /\ Reading(t)' = Reading(t)
          /\ storedRecords' = storedRecords /\ storedUser' = storedUser
          /\ ~isLoading'[t] /\ ~geoPending'[t]
          /\ lastOp'.toasts = {"error"}
     /\ (lastOp'.name = "mountAttendance" /\ screen'[t] = "attendance" /\ ~geolocation) =>
          /\ currentLocation'[t] = None /\ distance'[t] = None
          /\ ~isLoading'[t] /\ ~geoPending'[t]
     /\ (lastOp'.name = "handleAttendance" /\ lastOp'.appended) =>
          /\ Last(Ledger').location = Val(currentLocation[t])
          /\ Last(Ledger').status =
               (IF isWithinOffice[t] = Some(TRUE) THEN "present" ELSE "absent")
          /\ currentLocation'[t] = currentLocation[t]
    ]_vars

\* C16: a refresh failed after an earlier successful reading, which is kept
C16_Witness ==
  /\ lastOp.name = "locationError"
  /\ currentLocation[T] # None /\ distance[T] # None
  /\ ~isLoading[T]

\* C17: handleLogout removes the stored user and leaves the ledger as it is;
\* while no user is stored, entering the Attendance or the History route
\* ends on the landing route with no user and no records loaded, and no
\* step changes the ledger; the Attendance screen takes its user from the
\* storage when it mounts and keeps it, and every appended record carries
\* that user's id.
C17_LogoutKeepsLedger ==
  [][\A t \in {u \in Tabs : u = lastOp'.tab} :
     /\ lastOp'.name = "handleLogout" =>
          /\ storedUser' = NULL
          /\ storedRecords' = storedRecords
          /\ screen'[t] = "landing"
     /\ (storedUser = NULL
          /\ lastOp'.name \in {"mountAttendance", "mountHistory", "viewHistory"}) =>
          /\ screen'[t] = "landing"
          /\ currentUser'[t] = NULL
          /\ attendanceRecords'[t] = <<>>
          /\ ~geoPending'[t]
     /\ storedUser = NULL => storedRecords' = storedRecords
     /\ (lastOp'.name = "mountAttendance" /\ screen'[t] = "attendance") =>
          currentUser'[t] = storedUser /\ storedUser # NULL
     /\ (lastOp'.name # "mountAttendance"
          /\ screen[t] = "attendance" /\ screen'[t] = "attendance") =>
          currentUser'[t] = currentUser[t]
     /\ (lastOp'.name = "handleAttendance" /\ lastOp'.appended) =>
          /\ Len(Ledger') = Len(Ledger) + 1
          /\ Last(Ledger').id = currentUser[t]
          /\ currentUser[t] # NULL
    ]_vars

\* C17: after a logout that left records in the ledger, the Attendance
\* route was entered and redirected
C17_Witness ==
  /\ lastOp.name = "mountAttendance"
  /\ storedUser = NULL
  /\ Len(Ledger) > 0
  /\ screen[T] = "landing" /\ attendanceRecords[T] = <<>>

====
